---------------------------- MODULE Spec2Model ----------------------------
(***************************************************************************)
(* Chunked upload: the Express handler of node-multipart-upload.js, and    *)
(* the PHP handler MultipartUploadHandler.                                 *)
(*                                                                         *)
(* The server is a single-threaded event loop.  A handler runs atomically  *)
(* from one `await` to the next; the file-system operation it awaits takes *)
(* effect at some later instant, and the handler's continuation runs at    *)
(* some instant after that.  Every `await` is therefore two steps: the     *)
(* effect of the operation (pc "x") and the continuation (pc "x_ret").     *)
(*                                                                         *)
(* Files whose name can move while a descriptor is open (assembled_file,   *)
(* the files of the upload directory) are inodes; chunk files are written  *)
(* and read whole and are kept by path.  File contents are byte sequences. *)
(*                                                                         *)
(* The PHP handler is served by one worker: a request runs to its end      *)
(* before the next one starts.  It keeps its own directories.              *)
(***************************************************************************)
EXTENDS Integers, Sequences, FiniteSets, TLC

VARIABLES
    \* the Express server
    uploadSessions,  \* the Map upload_id -> session object (a heap reference)
    heap,            \* session objects: reference -> record
    dirs,            \* the session directories that exist under CONFIG.tempDir
    chunkFile,       \* <<upload_id, n>> -> bytes of tempDir/<upload_id>/chunk_<n>
    assembled,       \* upload_id -> inode of tempDir/<upload_id>/assembled_file
    uploadDir,       \* final filename -> inode of CONFIG.uploadDir/<filename>
    inodes,          \* inode -> bytes
    req,             \* request slot -> the handler serving it
    alive,           \* FALSE once an uncaught exception has ended the process
    now,             \* Date.now(), in units of the sweep interval
    sweep,           \* the run of cleanOldSessions the interval timer started last
    \* the PHP handler
    phpTempDir,      \* upload_id -> the session directory $this->tempDir/<upload_id>/
    phpUploadDir,    \* final filename -> bytes of $this->uploadDir/<filename>
    phpReq,          \* the request the PHP worker is serving
    \* the environment
    served,          \* the number of requests accepted so far
    client,          \* upload_id -> the upload a client is delivering under it
    call             \* a call of uploadVideoMultipart of the browser client

nodeVars == <<uploadSessions, heap, dirs, chunkFile, assembled, uploadDir, inodes,
              req, alive, now, sweep>>
phpVars == <<phpTempDir, phpUploadDir, phpReq>>
envVars == <<served, client, call>>
vars == <<nodeVars, phpVars, envVars>>

---------------------------------------------------------------------------
(* Bounds *)

\* requests served concurrently
MaxReq == 2
\* largest chunk_number and total_chunks of an arbitrary request
MaxChunk == 2
\* requests accepted in a run of arbitrary requests
MaxRequests == 4
\* largest number of chunks of an upload delivered in order
MaxTotal == 3
\* sweep intervals the clock runs through
MaxNow == 5
\* requests accepted in a run with sweeps
MaxSweepRequests == 3

\* the largest file a client uploads, in bytes
MaxFileSize == 6
\* the largest file a client uploads to a server that accepts every chunk
MaxLargeFile == 400

\* CONFIG.sessionMaxAge (24 hours) in units of the sweep interval (6 hours)
sessionMaxAge == 4

Slots == 1..MaxReq
ChunkNums == 1..MaxChunk

---------------------------------------------------------------------------
(* Values *)

EmptyMap == [x \in {} |-> 0]
MapPut(m, k, v) == [x \in DOMAIN m \cup {k} |-> IF x = k THEN v ELSE m[x]]
MapDel(m, k) == [x \in DOMAIN m \ {k} |-> m[x]]
Range(m) == {m[x] : x \in DOMAIN m}
Max(a, b) == IF a >= b THEN a ELSE b
MinOf(S) == CHOOSE x \in S : \A y \in S : x <= y

UploadIds == {"u1", "u2"}

\* the bytes of a chunk: chunk n of an upload carries n bytes of value n
Payload(n) == [k \in 1..n |-> n]

\* original_filename values: one allowed, one with a disallowed extension
Filenames == {"a.mp4", "b.exe"}
\* object_name values; "" is the absent field
ObjectNames == {"", "videos/o.mp4"}

extname(f) ==
    CASE f = "a.mp4" -> ".mp4"
      [] f = "b.exe" -> ".exe"
      [] f = "videos/o.mp4" -> ".mp4"
      [] f = "o.mp4" -> ".mp4"
      [] OTHER -> ""

basename(f) ==
    CASE f = "videos/o.mp4" -> "o.mp4"
      [] OTHER -> f

allowedExtensions ==
    {".mp4", ".mov", ".avi", ".mkv", ".webm", ".flv", ".jpg", ".png", ".pdf"}

---------------------------------------------------------------------------
(* Files *)

\* a file grown to n bytes: the gap reads as zero bytes
Pad(c, n) == IF Len(c) >= n THEN c ELSE c \o [k \in 1..(n - Len(c)) |-> 0]

\* write(fd, d) at file offset pos
WriteAt(c, pos, d) ==
    LET base == Pad(c, pos)
        n == Max(Len(base), pos + Len(d))
    IN [k \in 1..n |-> IF k > pos /\ k <= pos + Len(d) THEN d[k - pos] ELSE base[k]]

\* the inodes some name or some open descriptor still refers to
LiveInodes(asm, upl, rq) ==
    Range(asm) \cup Range(upl) \cup {rq[s].fd : s \in {t \in Slots : rq[t].stream = "open"}}

GcInodes(ino, asm, upl, rq) ==
    [x \in DOMAIN ino \cap LiveInodes(asm, upl, rq) |-> ino[x]]

FreshInode(ino) == MinOf((1..(Cardinality(DOMAIN ino) + 1)) \ DOMAIN ino)

\* fs.rm(sessionDir, {recursive, force}): the directory and all it holds
RmDir(id) ==
    /\ dirs' = dirs \ {id}
    /\ chunkFile' = [k \in {x \in DOMAIN chunkFile : x[1] # id} |-> chunkFile[k]]
    /\ assembled' = MapDel(assembled, id)

---------------------------------------------------------------------------
(* Session objects *)

LiveObjs(reg, rq) == (Range(reg) \cup {rq[s].session : s \in Slots}) \ {0}

GcHeap(h, reg, rq) == [x \in DOMAIN h \cap LiveObjs(reg, rq) |-> h[x]]

FreshObj(h) == MinOf((1..(Cardinality(DOMAIN h) + 1)) \ DOMAIN h)

\* the object literal of lines 136-144
NewSession(r) ==
    [ chunks |-> {},
      totalChunks |-> r.total_chunks,
      original_filename |-> r.original_filename,
      object_name |-> r.object_name,
      startedAt |-> now,
      \* history, not a field of the code: when the session was last given a chunk
      lastChunkAt |-> now ]

\* a chunk path that ignores the chunk number
chunkPathSame(id, n) == <<id, 1>>

\* line 159 and line 205: the path of chunk n in the session directory
chunkPath(id, n) == <<id, n>>

\* lines 188-194: the indices 1..totalChunks the session's chunk map lacks
missingChunks(session) == {i \in 1..session.totalChunks : i \notin session.chunks}

\* lines 220-226
finalFilename(session) ==
    IF session.object_name # "" THEN basename(session.object_name)
    ELSE session.original_filename

---------------------------------------------------------------------------
(* Handlers *)

NoResp == [status |-> 0, kind |-> "", file_size |-> 0]

IdleReq ==
    [ pc |-> "idle", kind |-> "", upload_id |-> "", chunkNum |-> 0, totalChunks |-> 0,
      isLast |-> FALSE, original_filename |-> "", object_name |-> "",
      session |-> 0, i |-> 0, data |-> <<>>, err |-> FALSE,
      stream |-> "none", fd |-> 0, pos |-> 0, wq |-> <<>>,
      size |-> 0, after |-> "", resp |-> NoResp ]

\* res.status(..).json(..): the request is answered.  What identifies the
\* request, the response and the handler's write stream (which lives on) are kept.
Answer(h, status, kind, size) ==
    [IdleReq EXCEPT !.pc = "done", !.kind = h.kind, !.upload_id = h.upload_id,
                    !.chunkNum = h.chunkNum, !.isLast = h.isLast, !.after = h.after,
                    !.stream = h.stream, !.fd = h.fd, !.pos = h.pos, !.wq = h.wq,
                    !.resp = [status |-> status, kind |-> kind, file_size |-> size]]

\* a step of the server: the process is running and the environment does not move
Running == alive /\ UNCHANGED envVars

\* the handler in slot s is at pc and takes the step
At(s, pc) == Running /\ req[s].pc = pc

\* a request is taken by the first slot that is free
Accepts(s) == alive /\ req[s].pc = "idle" /\ \A t \in 1..(s - 1) : req[t].pc # "idle"


\* the handler's memory after a step: unreferenced session objects are dropped
Mem(rq, reg, h) ==
    /\ req' = rq
    /\ uploadSessions' = reg
    /\ heap' = GcHeap(h, reg, rq)

\* a step that changes only handler s
Only(s, h) == Mem([req EXCEPT ![s] = h], uploadSessions, heap)

NoFs == UNCHANGED <<dirs, chunkFile, assembled, uploadDir, inodes>>

\* parseInt of a decimal field
parseInt(str) == CHOOSE n \in -1..(Max(MaxChunk, MaxTotal) + 1) : ToString(n) = str

\* lines 474-476 and 481 when the directory is gone: cleanupSession up to its
\* first await.  `after` is what the caller does once cleanupSession returns.
AfterCleanup(h, after) ==
    CASE after = "final" -> Answer(h, 200, "final", h.size)
      [] after = "abort" -> Answer(h, 200, "aborted", 0)
      [] OTHER -> Answer(h, 500, "error", 0)

cleanupSession(s, h, hp, after) ==
    IF h.upload_id \in dirs
    THEN Mem([req EXCEPT ![s] = [h EXCEPT !.pc = "rm", !.after = after]],
             uploadSessions, hp)
    ELSE Mem([req EXCEPT ![s] = AfterCleanup([h EXCEPT !.after = after], after)],
             MapDel(uploadSessions, h.upload_id), hp)

\* getSession without the check of lines 151-156
getSessionUnchecked(h, reg) ==
    IF h.upload_id \notin DOMAIN reg
    THEN Answer(h, 200, "progress", 0)
    ELSE [h EXCEPT !.session = reg[h.upload_id], !.pc = "writeFile"]

\* lines 149-160: look the session up and start writing the chunk file
getSession(h, reg) ==
    IF h.upload_id \notin DOMAIN reg
    THEN Answer(h, 400, "session_not_found", 0)
    ELSE [h EXCEPT !.session = reg[h.upload_id], !.pc = "writeFile"]

\* validation without the check of the extension (lines 122-129)
validationErrorNoExt(r) ==
    \/ r.upload_id = "" \/ r.chunk_number = "" \/ r.total_chunks = ""
    \/ r.is_last_chunk = "" \/ r.original_filename = ""
    \/ ~r.has_file

\* lines 101-129
validationError(r) ==
    \/ r.upload_id = "" \/ r.chunk_number = "" \/ r.total_chunks = ""
    \/ r.is_last_chunk = "" \/ r.original_filename = ""
    \/ ~r.has_file
    \/ extname(r.original_filename) \notin allowedExtensions

\* lines 90-134 and 149-160: a chunk request arrives
handleMultipartUpload(s, r) ==
    /\ Accepts(s)
    /\ NoFs /\ UNCHANGED <<alive, now, sweep, phpVars>>
    /\ IF validationError(r)
       THEN Only(s, Answer([IdleReq EXCEPT !.kind = "chunk", !.upload_id = r.upload_id],
                           400, "error", 0))
       ELSE LET h == [IdleReq EXCEPT !.kind = "chunk",
                                     !.upload_id = r.upload_id,
                                     !.chunkNum = parseInt(r.chunk_number),
                                     !.totalChunks = parseInt(r.total_chunks),
                                     !.isLast = (r.is_last_chunk = "true"),
                                     !.original_filename = r.original_filename,
                                     !.object_name = r.object_name,
                                     !.data = r.file]
            IN IF h.chunkNum = 1
               THEN Only(s, [h EXCEPT !.pc = "mkdir"])
               ELSE Only(s, getSession(h, uploadSessions))

\* line 134: fs.mkdir(sessionDir, {recursive: true}) takes effect
mkdirSessionDir(s) ==
    /\ At(s, "mkdir")
    /\ dirs' = dirs \cup {req[s].upload_id}
    /\ Only(s, [req[s] EXCEPT !.pc = "mkdir_ret"])
    /\ UNCHANGED <<chunkFile, assembled, uploadDir, inodes, alive, now, sweep, phpVars>>

\* lines 136-160: the session is put into the Map, then looked up
initSession(s) ==
    /\ At(s, "mkdir_ret")
    /\ NoFs /\ UNCHANGED <<alive, now, sweep, phpVars>>
    /\ LET h == req[s]
           o == FreshObj(heap)
           reg == MapPut(uploadSessions, h.upload_id, o)
           hp == MapPut(heap, o, NewSession([total_chunks |-> h.totalChunks,
                                             original_filename |-> h.original_filename,
                                             object_name |-> h.object_name]))
       IN Mem([req EXCEPT ![s] = getSession(h, reg)], reg, hp)

\* line 160: fs.writeFile(chunkPath, buffer) takes effect
writeChunkFile(s) ==
    /\ At(s, "writeFile")
    /\ LET h == req[s] IN
       IF h.upload_id \in dirs
       THEN /\ chunkFile' = MapPut(chunkFile, chunkPath(h.upload_id, h.chunkNum), h.data)
            /\ Only(s, [h EXCEPT !.pc = "writeFile_ret", !.err = FALSE])
       ELSE /\ UNCHANGED chunkFile
            /\ Only(s, [h EXCEPT !.pc = "writeFile_ret", !.err = TRUE])
    /\ UNCHANGED <<dirs, assembled, uploadDir, inodes, alive, now, sweep, phpVars>>

\* lines 161-206: the chunk is recorded; the last chunk starts the assembly
chunkSaved(s) ==
    /\ At(s, "writeFile_ret")
    /\ NoFs /\ UNCHANGED <<alive, now, sweep, phpVars>>
    /\ LET h == req[s] IN
       IF h.err
       THEN Only(s, Answer(h, 500, "error", 0))
       ELSE LET session == [heap[h.session] EXCEPT !.chunks = @ \cup {h.chunkNum},
                                                    !.lastChunkAt = now]
                hp == [heap EXCEPT ![h.session] = session]
                h1 == [h EXCEPT !.data = <<>>]
            IN IF ~h.isLast
               THEN Mem([req EXCEPT ![s] = Answer(h1, 200, "progress", 0)],
                        uploadSessions, hp)
               ELSE IF missingChunks(session) # {}
               THEN \* the catch block of lines 258-261
                    cleanupSession(s, h1, hp, "throw")
               ELSE IF session.totalChunks >= 1
               THEN Mem([req EXCEPT ![s] = [h1 EXCEPT !.stream = "opening", !.i = 1,
                                                      !.pc = "readFile"]],
                        uploadSessions, hp)
               ELSE Mem([req EXCEPT ![s] = [h1 EXCEPT !.stream = "opening",
                                                      !.pc = "finish"]],
                        uploadSessions, hp)

\* line 206: fs.readFile(chunkPath) takes effect
readChunkFile(s) ==
    /\ At(s, "readFile")
    /\ NoFs /\ UNCHANGED <<alive, now, sweep, phpVars>>
    /\ LET h == req[s]
           k == chunkPath(h.upload_id, h.i)
       IN IF k \in DOMAIN chunkFile
          THEN Only(s, [h EXCEPT !.pc = "readFile_ret", !.data = chunkFile[k], !.err = FALSE])
          ELSE Only(s, [h EXCEPT !.pc = "readFile_ret", !.data = <<>>, !.err = TRUE])

\* lines 204-216: the chunk goes to the stream; after the last one the stream
\* is ended and the handler waits for 'finish' or 'error'
chunkRead(s) ==
    /\ At(s, "readFile_ret")
    /\ NoFs /\ UNCHANGED <<alive, now, sweep, phpVars>>
    /\ LET h == req[s] IN
       IF h.err
       THEN cleanupSession(s, [h EXCEPT !.err = FALSE, !.i = 0], heap, "throw")
       ELSE LET h1 == [h EXCEPT !.wq = Append(@, h.data), !.data = <<>>] IN
            IF h.i + 1 <= heap[h.session].totalChunks
            THEN Only(s, [h1 EXCEPT !.i = h.i + 1, !.pc = "readFile"])
            ELSE Only(s, [h1 EXCEPT !.i = 0, !.pc = "finish"])

\* line 202: the open of the write stream (flags 'w') takes effect.  A failed
\* open emits 'error': the handler waiting at lines 213-216 is rejected; with
\* no listener attached yet the error is an uncaught exception.
streamOpen(s) ==
    /\ Running
    /\ req[s].stream = "opening"
    /\ UNCHANGED <<dirs, chunkFile, uploadDir, now, sweep, phpVars>>
    /\ LET h == req[s]
           id == h.upload_id
       IN IF id \in dirs
          THEN /\ IF id \in DOMAIN assembled
                  THEN /\ inodes' = [inodes EXCEPT ![assembled[id]] = <<>>]
                       /\ UNCHANGED assembled
                       /\ Only(s, [h EXCEPT !.stream = "open", !.fd = assembled[id]])
                  ELSE /\ inodes' = MapPut(inodes, FreshInode(inodes), <<>>)
                       /\ assembled' = MapPut(assembled, id, FreshInode(inodes))
                       /\ Only(s, [h EXCEPT !.stream = "open", !.fd = FreshInode(inodes)])
               /\ UNCHANGED alive
          ELSE /\ UNCHANGED <<assembled, inodes>>
               /\ IF h.pc = "finish"
                  THEN /\ cleanupSession(s, [h EXCEPT !.stream = "closed", !.wq = <<>>],
                                         heap, "throw")
                       /\ UNCHANGED alive
                  ELSE /\ alive' = FALSE
                       /\ Only(s, [h EXCEPT !.stream = "closed", !.wq = <<>>])

\* lines 207: a queued write of the stream takes effect at the descriptor's offset
streamWrite(s) ==
    /\ Running
    /\ req[s].stream = "open"
    /\ req[s].wq # <<>>
    /\ LET h == req[s]
           d == Head(h.wq)
       IN /\ inodes' = [inodes EXCEPT ![h.fd] = WriteAt(@, h.pos, d)]
          /\ Only(s, [h EXCEPT !.pos = h.pos + Len(d), !.wq = Tail(h.wq)])
    /\ UNCHANGED <<dirs, chunkFile, assembled, uploadDir, alive, now, sweep, phpVars>>

\* lines 210-232: 'finish' resolves the wait; the final name is computed and
\* the rename is started
streamFinish(s) ==
    /\ At(s, "finish")
    /\ req[s].stream = "open"
    /\ req[s].wq = <<>>
    /\ LET rq == [req EXCEPT ![s] = [req[s] EXCEPT !.stream = "closed", !.fd = 0,
                                                  !.pos = 0, !.pc = "rename"]]
       IN /\ Mem(rq, uploadSessions, heap)
          /\ inodes' = GcInodes(inodes, assembled, uploadDir, rq)
    /\ UNCHANGED <<dirs, chunkFile, assembled, uploadDir, alive, now, sweep, phpVars>>

\* line 232: fs.rename(assembledPath, finalPath) takes effect
renameAssembled(s) ==
    /\ At(s, "rename")
    /\ LET h == req[s]
           id == h.upload_id
           dest == finalFilename(heap[h.session])
       IN IF id \in DOMAIN assembled
          THEN /\ uploadDir' = MapPut(uploadDir, dest, assembled[id])
               /\ assembled' = MapDel(assembled, id)
               /\ inodes' = GcInodes(inodes, MapDel(assembled, id),
                                     MapPut(uploadDir, dest, assembled[id]), req)
               /\ Only(s, [h EXCEPT !.pc = "rename_ret", !.err = FALSE])
          ELSE /\ UNCHANGED <<uploadDir, assembled, inodes>>
               /\ Only(s, [h EXCEPT !.pc = "rename_ret", !.err = TRUE])
    /\ UNCHANGED <<dirs, chunkFile, alive, now, sweep, phpVars>>

\* lines 234-237: after the rename the handler asks for the file's size
renamed(s) ==
    /\ At(s, "rename_ret")
    /\ NoFs /\ UNCHANGED <<alive, now, sweep, phpVars>>
    /\ LET h == req[s] IN
       IF h.err
       THEN cleanupSession(s, [h EXCEPT !.err = FALSE], heap, "throw")
       ELSE Only(s, [h EXCEPT !.pc = "stat"])

\* line 237: fs.stat(finalPath) takes effect
statFinal(s) ==
    /\ At(s, "stat")
    /\ NoFs /\ UNCHANGED <<alive, now, sweep, phpVars>>
    /\ LET h == req[s]
           dest == finalFilename(heap[h.session])
       IN IF dest \in DOMAIN uploadDir
          THEN Only(s, [h EXCEPT !.pc = "stat_ret", !.size = Len(inodes[uploadDir[dest]]),
                                 !.err = FALSE])
          ELSE Only(s, [h EXCEPT !.pc = "stat_ret", !.err = TRUE])

\* lines 239-240: cleanupSession is called on the success path
statted(s) ==
    /\ At(s, "stat_ret")
    /\ NoFs /\ UNCHANGED <<alive, now, sweep, phpVars>>
    /\ LET h == req[s] IN
       IF h.err
       THEN cleanupSession(s, [h EXCEPT !.err = FALSE], heap, "throw")
       ELSE cleanupSession(s, h, heap, "final")

\* line 477: fs.rm(sessionDir, {recursive: true, force: true}) takes effect
rmSessionDir(s) ==
    /\ At(s, "rm")
    /\ RmDir(req[s].upload_id)
    /\ Only(s, [req[s] EXCEPT !.pc = "rm_ret"])
    /\ inodes' = GcInodes(inodes, MapDel(assembled, req[s].upload_id), uploadDir, req)
    /\ UNCHANGED <<uploadDir, alive, now, sweep, phpVars>>

\* lines 481-482, then the caller of cleanupSession goes on
sessionRemoved(s) ==
    /\ At(s, "rm_ret")
    /\ NoFs /\ UNCHANGED <<alive, now, sweep, phpVars>>
    /\ LET h == req[s] IN
       Mem([req EXCEPT ![s] = AfterCleanup(h, h.after)],
           MapDel(uploadSessions, h.upload_id), heap)

\* handleAbortUpload answering an unknown upload_id with an error
handleAbortUploadKnown(s, id) ==
    /\ Accepts(s)
    /\ NoFs /\ UNCHANGED <<alive, now, sweep, phpVars>>
    /\ LET h == [IdleReq EXCEPT !.kind = "abort", !.upload_id = id] IN
       IF id = ""
       THEN Only(s, Answer(h, 400, "error", 0))
       ELSE IF id \in DOMAIN uploadSessions
       THEN cleanupSession(s, h, heap, "abort")
       ELSE Only(s, Answer(h, 404, "error", 0))

\* lines 403-423: an abort request arrives
handleAbortUpload(s, id) ==
    /\ Accepts(s)
    /\ NoFs /\ UNCHANGED <<alive, now, sweep, phpVars>>
    /\ LET h == [IdleReq EXCEPT !.kind = "abort", !.upload_id = id] IN
       IF id = ""
       THEN Only(s, Answer(h, 400, "error", 0))
       ELSE IF id \in DOMAIN uploadSessions
       THEN cleanupSession(s, h, heap, "abort")
       ELSE Only(s, Answer(h, 200, "aborted", 0))

\* the response has been sent and the handler's stream has nothing left to
\* write: the slot serves the next request
respond(s) ==
    /\ alive
    /\ req[s].pc = "done"
    /\ req[s].stream \in {"none", "closed"} \/ (req[s].stream = "open" /\ req[s].wq = <<>>)
    /\ LET rq == [req EXCEPT ![s] = IdleReq]
       IN /\ Mem(rq, uploadSessions, heap)
          /\ inodes' = GcInodes(inodes, assembled, uploadDir, rq)
    /\ UNCHANGED <<dirs, chunkFile, assembled, uploadDir, alive, now, sweep, phpVars>>

---------------------------------------------------------------------------
(* The sweep of old sessions *)

\* no sweep is running.  `seen` are the entries the loop of line 495 has
\* visited, `cleaned` those it has logged as "Cleaning old session".
NoSweep == [pc |-> "idle", now |-> 0, seen |-> {}, cleaned |-> {}, id |-> ""]

\* line 496
expired(session, at) == at - session.startedAt > sessionMaxAge

\* the test of line 496 on the time of the last chunk instead of startedAt
expiredIdle(session, at) == at - session.lastChunkAt > sessionMaxAge

\* no request is being handled
Quiet == \A s \in Slots : req[s].pc \in {"idle", "done"}

\* line 504 and lines 492-495: one more interval has passed and the timer
\* calls cleanOldSessions.  A request is handled and a sweep is run in less
\* than an interval: the requests and the sweep before it have ended by then
\* (a request that arrives as the timer fires is one that arrives after this
\* step).
cleanOldSessions ==
    /\ alive
    /\ sweep.pc = "idle"
    /\ Quiet
    /\ now < MaxNow
    /\ now' = now + 1
    /\ sweep' = [NoSweep EXCEPT !.pc = "scan", !.now = now + 1]
    /\ UNCHANGED <<uploadSessions, heap, req, alive, phpVars, envVars>>
    /\ NoFs

\* lines 495-498 and 474-476, 481: the loop takes an entry it has not visited
\* (in any order), up to the await of fs.rm; with no entry left the sweep ends
sweepScan ==
    /\ alive
    /\ sweep.pc = "scan"
    /\ LET todo == DOMAIN uploadSessions \ sweep.seen IN
       IF todo = {}
       THEN /\ sweep' = [sweep EXCEPT !.pc = "idle"]
            /\ UNCHANGED <<uploadSessions, heap>>
       ELSE \E id \in todo :
              IF ~expired(heap[uploadSessions[id]], sweep.now)
              THEN /\ sweep' = [sweep EXCEPT !.seen = @ \cup {id}]
                   /\ UNCHANGED <<uploadSessions, heap>>
              ELSE IF id \in dirs
              THEN /\ sweep' = [sweep EXCEPT !.pc = "rm", !.id = id,
                                             !.cleaned = @ \cup {id}]
                   /\ UNCHANGED <<uploadSessions, heap>>
              ELSE /\ sweep' = [sweep EXCEPT !.seen = @ \cup {id},
                                             !.cleaned = @ \cup {id}]
                   /\ uploadSessions' = MapDel(uploadSessions, id)
                   /\ heap' = GcHeap(heap, MapDel(uploadSessions, id), req)
    /\ UNCHANGED <<req, alive, now, phpVars, envVars>>
    /\ NoFs

\* line 477: the sweep's fs.rm takes effect
sweepRm ==
    /\ alive
    /\ sweep.pc = "rm"
    /\ RmDir(sweep.id)
    /\ inodes' = GcInodes(inodes, MapDel(assembled, sweep.id), uploadDir, req)
    /\ sweep' = [sweep EXCEPT !.pc = "rm_ret"]
    /\ UNCHANGED <<uploadSessions, heap, uploadDir, req, alive, now, phpVars, envVars>>

\* lines 481-482: the entry is deleted and the loop goes on
sweepRemoved ==
    /\ alive
    /\ sweep.pc = "rm_ret"
    /\ uploadSessions' = MapDel(uploadSessions, sweep.id)
    /\ heap' = GcHeap(heap, MapDel(uploadSessions, sweep.id), req)
    /\ sweep' = [sweep EXCEPT !.pc = "scan", !.seen = @ \cup {sweep.id}, !.id = ""]
    /\ UNCHANGED <<req, alive, now, phpVars, envVars>>
    /\ NoFs

---------------------------------------------------------------------------
(* Requests *)

\* the fields of a chunk request (client lines 52-66)
ChunkRequest(id, n, total, last, fname, oname, bytes) ==
    [ upload_id |-> id, chunk_number |-> ToString(n), total_chunks |-> ToString(total),
      is_last_chunk |-> IF last THEN "true" ELSE "false",
      original_filename |-> fname, object_name |-> oname,
      has_file |-> TRUE, file |-> bytes ]

\* arbitrary chunk requests for one upload_id
ChunkRequests ==
    { ChunkRequest("u1", n, total, last, "a.mp4", "", Payload(n)) :
        n \in ChunkNums, total \in ChunkNums, last \in BOOLEAN }

\* the bytes a client may put into a chunk
Payloads == {<<1>>, <<2, 3>>}

\* the concatenation of a sequence of chunks
RECURSIVE Flatten(_)
Flatten(cs) == IF cs = <<>> THEN <<>> ELSE Head(cs) \o Flatten(Tail(cs))

\* an upload as its client sees it: the chunks sent so far (the last one may
\* be in flight), and the answers to its final chunk
NoUpload ==
    [st |-> "none", total |-> 0, chunks |-> <<>>, extra |-> FALSE, finals |-> <<>>]

\* the object_name an upload is sent with: each upload_id has its own final name
ObjectNameOf(id) == IF id = "u1" THEN "" ELSE "videos/o.mp4"
DestOf(id) == IF id = "u1" THEN "a.mp4" ELSE "o.mp4"

\* no call of uploadVideoMultipart has been made.  sent, acked, failed and
\* delays record what the call has done: the chunk numbers of the requests
\* sent, the chunks answered with a success status, the chunk numbers of the
\* attempts that failed, and the waits before the retries of the current chunk;
\* aborts holds the upload_id of every abort request sent, error the chunk
\* number named by the error the call throws, logged whether the failure of
\* the abort request was written to the console, cancelled whether the caller
\* has asked for the upload to stop, progress the percentages handed to
\* onProgress, uploadedChunks the chunk numbers pushed at line 93, file the
\* bytes of the file, formData the fields of the current chunk's request,
\* uploadedBytes the bytes of the chunks uploaded so far, slot the request
\* slot of the server that handles the request in flight (0: none), delivered
\* the chunk numbers of the requests that reached the server
NoCall ==
    [ pc |-> "none", uploadId |-> "", totalChunks |-> 0, i |-> 0, retries |-> 0,
      uploaded |-> FALSE,
      inflight |-> 0, sent |-> <<>>, acked |-> {}, failed |-> <<>>, delays |-> <<>>,
      aborts |-> <<>>, error |-> 0, logged |-> FALSE,
      cancelled |-> FALSE, progress |-> <<>>, uploadedChunks |-> <<>>,
      file |-> <<>>, formData |-> <<>>, uploadedBytes |-> <<>>,
      slot |-> 0, delivered |-> {},
      result |-> "" ]

\* the PHP worker between two requests
PhpIdle ==
    [pc |-> "idle", upload_id |-> "", client_id |-> "", totalChunks |-> 0, resp |-> NoResp]

Init ==
    /\ uploadSessions = EmptyMap
    /\ heap = EmptyMap
    /\ dirs = {}
    /\ chunkFile = EmptyMap
    /\ assembled = EmptyMap
    /\ uploadDir = EmptyMap
    /\ inodes = EmptyMap
    /\ req = [s \in Slots |-> IdleReq]
    /\ alive = TRUE
    /\ now = 0
    /\ sweep = NoSweep
    /\ served = 0
    /\ client = [id \in UploadIds |-> NoUpload]
    /\ call = NoCall
    /\ phpTempDir = EmptyMap
    /\ phpUploadDir = EmptyMap
    /\ phpReq = PhpIdle

FsStep(s) ==
    \/ mkdirSessionDir(s) \/ writeChunkFile(s) \/ readChunkFile(s)
    \/ streamOpen(s) \/ streamWrite(s) \/ renameAssembled(s) \/ statFinal(s)
    \/ rmSessionDir(s)

Continue(s) ==
    \/ initSession(s) \/ chunkSaved(s) \/ chunkRead(s) \/ streamFinish(s)
    \/ renamed(s) \/ statted(s) \/ sessionRemoved(s)

\* the server's own steps
Serve == \E s \in Slots : FsStep(s) \/ Continue(s)

\* an arbitrary chunk request arrives
AnyChunk ==
    /\ served < MaxRequests
    /\ served' = served + 1
    /\ \E s \in Slots, r \in ChunkRequests : handleMultipartUpload(s, r)
    /\ UNCHANGED <<client, call>>

\* an abort request arrives
AnyAbort ==
    /\ served < MaxRequests
    /\ served' = served + 1
    /\ \E s \in Slots : handleAbortUpload(s, "u1")
    /\ UNCHANGED <<client, call>>

\* a response leaves the server
AnyRespond == (\E s \in Slots : respond(s)) /\ UNCHANGED envVars

Next == AnyChunk \/ AnyAbort \/ Serve \/ AnyRespond

\* arbitrary chunk and abort requests for one upload_id, served concurrently
Spec == Init /\ [][Next]_vars

\* a request without one of its fields (the field reads as the empty string)
Without(r, field) == [r EXCEPT ![field] = ""]

RequiredFields ==
    {"upload_id", "chunk_number", "total_chunks", "is_last_chunk", "original_filename"}

\* chunk requests that fail the validation of lines 101-129: a required field
\* is missing, no file was uploaded, or the extension is not allowed
InvalidRequests ==
    LET Valid == { ChunkRequest("u1", n, MaxChunk, last, "a.mp4", "", Payload(n)) :
                     n \in ChunkNums, last \in BOOLEAN }
    IN UNION { { Without(r, f) : f \in RequiredFields }
               \cup { [r EXCEPT !.has_file = FALSE, !.file = <<>>],
                      [r EXCEPT !.original_filename = "b.exe"] } : r \in Valid }

\* an invalid chunk request arrives
InvalidChunk ==
    /\ served < MaxRequests
    /\ served' = served + 1
    /\ \E s \in Slots, r \in InvalidRequests : handleMultipartUpload(s, r)
    /\ UNCHANGED <<client, call>>

NextInvalid == Next \/ InvalidChunk

\* arbitrary valid and invalid chunk requests and aborts, served concurrently
SpecInvalid == Init /\ [][NextInvalid]_vars

\* the chunk requests of a run with sweeps: chunks of one upload of MaxChunk chunks
SweepRequests ==
    { ChunkRequest("u1", n, MaxChunk, last, "a.mp4", "", Payload(n)) :
        n \in ChunkNums, last \in BOOLEAN }

\* a chunk request arrives in a run with sweeps
SweepChunk ==
    /\ served < MaxSweepRequests
    /\ served' = served + 1
    /\ \E s \in Slots, r \in SweepRequests : handleMultipartUpload(s, r)
    /\ UNCHANGED <<client, call>>

NextSweep ==
    \/ SweepChunk \/ Serve \/ AnyRespond
    \/ cleanOldSessions \/ sweepScan \/ sweepRm \/ sweepRemoved

\* arbitrary chunk requests for one upload_id while the clock runs and the
\* interval timer starts a sweep at every interval
SpecSweep == Init /\ [][NextSweep]_vars

----------------------------------------------------------------------------
(* Chunks that arrive while the sweep removes their session *)

\* a chunk request arrives before any session has been removed by a sweep
ChunkBeforeSweep ==
    /\ sweep.pc = "idle"
    /\ sweep.cleaned = {}
    /\ SweepChunk

\* a chunk request arrives while cleanupSession, called by the sweep, waits for
\* fs.rm (line 477) or is about to delete the entry (line 481)
ChunkDuringSweep ==
    /\ sweep.pc \in {"rm", "rm_ret"}
    /\ SweepChunk

NextReaper ==
    \/ ChunkBeforeSweep \/ ChunkDuringSweep \/ Serve \/ AnyRespond
    \/ cleanOldSessions \/ sweepScan \/ sweepRm \/ sweepRemoved

\* chunk requests for one upload_id that arrive before a sweep removes the
\* session or while it does, and none after
SpecReaper == Init /\ [][NextReaper]_vars

---------------------------------------------------------------------------
(* Uploads delivered in order *)

\* client lines 44-61: the next chunk of an upload is sent once the one before
\* it has been acknowledged; the first chunk fixes the number of chunks
Deliver(id) ==
    /\ client[id].st \in {"none", "ready"}
    /\ \E total \in 1..MaxTotal, bytes \in Payloads, s \in Slots :
         LET u == client[id]
             n == Len(u.chunks) + 1
             tot == IF u.st = "none" THEN total ELSE u.total
         IN /\ u.st = "ready" => total = u.total
            /\ handleMultipartUpload(s, ChunkRequest(id, n, tot, n = tot, "a.mp4",
                                                     ObjectNameOf(id), bytes))
            /\ client' = [client EXCEPT ![id] =
                             [u EXCEPT !.st = "wait", !.total = tot,
                                       !.chunks = Append(u.chunks, bytes)]]
    /\ UNCHANGED <<served, call>>

\* the answer to a chunk request reaches the client of its upload
Receive(s) ==
    /\ respond(s)
    /\ req[s].kind = "chunk"
    /\ LET id == req[s].upload_id
           u == client[id]
           ok == req[s].resp.status = 200
       IN client' = [client EXCEPT ![id] =
              [u EXCEPT
                 !.finals = IF req[s].isLast THEN Append(@, req[s].resp.kind) ELSE @,
                 !.st = IF ~ok THEN "failed"
                        ELSE IF req[s].resp.kind = "final" THEN "complete"
                        ELSE IF u.st = "wait" THEN "ready"
                        ELSE u.st]]
    /\ UNCHANGED <<served, call>>

NextInOrder ==
    \/ \E id \in UploadIds : Deliver(id)
    \/ \E s \in Slots : Receive(s)
    \/ Serve

\* every upload is delivered chunk by chunk, in order, each chunk once
SpecInOrder == Init /\ [][NextInOrder]_vars

----------------------------------------------------------------------------
(* Chunks arriving out of order *)

\* the chunk numbers whose requests have arrived, in the order of arrival
Arrived(u) == {u.order[j] : j \in 1..Len(u.order)}

\* the request of chunk n of the upload arrives; `payloads` are the chunks of
\* the file by chunk number, `order` the chunk numbers in the order of arrival
Arrive(id, n, u) ==
    /\ \E s \in Slots :
         handleMultipartUpload(s, ChunkRequest(id, n, u.total, n = u.total, "a.mp4",
                                               ObjectNameOf(id), u.payloads[n]))
    /\ client' = [client EXCEPT ![id] = [u EXCEPT !.order = Append(@, n)]]
    /\ UNCHANGED <<served, call>>

\* chunk 1 of a file of three or four chunks arrives before every other chunk
ArriveFirst(id) ==
    /\ client[id].st = "none"
    /\ \E total \in 3..(MaxTotal + 1) :
         \E payloads \in [1..total -> Payloads] :
            Arrive(id, 1, [st |-> "wait", total |-> total, payloads |-> payloads,
                           order |-> <<>>, finals |-> <<>>])

\* the chunks between the first and the last arrive in any order, each once,
\* whether or not the chunks before them have been answered
ArriveMiddle(id) ==
    /\ client[id].st # "none"
    /\ \E n \in 2..(client[id].total - 1) :
         /\ n \notin Arrived(client[id])
         /\ Arrive(id, n, client[id])

\* the chunk flagged is_last_chunk arrives after all the others
ArriveLast(id) ==
    /\ client[id].st # "none"
    /\ Arrived(client[id]) = 1..(client[id].total - 1)
    /\ Arrive(id, client[id].total, client[id])

NextAnyOrder ==
    \/ ArriveFirst("u1")
    \/ ArriveMiddle("u1")
    \/ ArriveLast("u1")
    \/ \E s \in Slots : Receive(s)
    \/ Serve

\* one upload whose chunks arrive in any order with chunk 1 first and the
\* chunk flagged is_last_chunk last
SpecAnyOrder == Init /\ [][NextAnyOrder]_vars

----------------------------------------------------------------------------
(* The total_chunks field *)

\* the decimal strings a client may send as total_chunks: line 102 tests
\* the field with !total_chunks, which only the empty string fails
TotalChunksValues == {ToString(n) : n \in -1..1}

\* chunk requests of one upload_id with any of these values
TotalRequests ==
    { [ChunkRequest("u1", n, 1, last, "a.mp4", "", Payload(n)) EXCEPT !.total_chunks = t] :
        n \in ChunkNums, t \in TotalChunksValues, last \in BOOLEAN }

\* a chunk request with such a total_chunks arrives
TotalChunk ==
    /\ served < MaxSweepRequests
    /\ served' = served + 1
    /\ \E s \in Slots, r \in TotalRequests : handleMultipartUpload(s, r)
    /\ UNCHANGED <<client, call>>

NextTotals == TotalChunk \/ Serve \/ AnyRespond

\* chunk requests whose total_chunks is negative, zero or one
SpecTotals == Init /\ [][NextTotals]_vars

----------------------------------------------------------------------------
(* Uploads that share a file name *)

\* the next chunk of an upload arrives, in order; every upload sends the same
\* original_filename and no object_name, so that finalPath (line 229) is the
\* same for all of them
DeliverSameName(id) ==
    /\ client[id].st \in {"none", "ready"}
    /\ \E total \in 1..MaxChunk, bytes \in Payloads, s \in Slots :
         LET u == client[id]
             n == Len(u.chunks) + 1
             tot == IF u.st = "none" THEN total ELSE u.total
         IN /\ u.st = "ready" => total = u.total
            /\ handleMultipartUpload(s, ChunkRequest(id, n, tot, n = tot, "a.mp4", "", bytes))
            /\ client' = [client EXCEPT ![id] =
                             [u EXCEPT !.st = "wait", !.total = tot,
                                       !.chunks = Append(u.chunks, bytes)]]
    /\ UNCHANGED <<served, call>>

NextSameName ==
    \/ \E id \in UploadIds : DeliverSameName(id)
    \/ \E s \in Slots : Receive(s)
    \/ Serve

\* every upload is delivered chunk by chunk, in order, each chunk once, and
\* all uploads carry the same file name
SpecSameName == Init /\ [][NextSameName]_vars

---------------------------------------------------------------------------
(* The final chunk submitted twice *)

\* the request of an upload's final chunk arrives a second time while the
\* first is being handled
DuplicateFinal(id) ==
    /\ client[id].st = "wait"
    /\ ~client[id].extra
    /\ Len(client[id].chunks) = client[id].total
    /\ \E t \in Slots : /\ req[t].upload_id = id
                        /\ req[t].isLast
                        /\ req[t].pc \notin {"idle", "done"}
    /\ \E s \in Slots :
         LET u == client[id]
         IN handleMultipartUpload(s, ChunkRequest(id, u.total, u.total, TRUE, "a.mp4",
                                                  ObjectNameOf(id), u.chunks[u.total]))
    /\ client' = [client EXCEPT ![id].extra = TRUE]
    /\ UNCHANGED <<served, call>>

NextDouble ==
    \/ Deliver("u1")
    \/ DuplicateFinal("u1")
    \/ \E s \in Slots : Receive(s)
    \/ Serve

\* one upload delivered in order whose final chunk is submitted twice
SpecDouble == Init /\ [][NextDouble]_vars

---------------------------------------------------------------------------
(* A chunk sent again *)

\* A chunk request the server has handled arrives again, with the same fields
\* and the same bytes (the client sends a chunk again when its request failed
\* on the client's side, client lines 76-116).  The chunk is one the server
\* has acknowledged, and it arrives before the final chunk of the upload.
Resend(id) ==
    /\ client[id].st = "ready"
    /\ ~client[id].extra
    /\ \E k \in 1..Len(client[id].chunks), s \in Slots :
         LET u == client[id]
         IN handleMultipartUpload(s, ChunkRequest(id, k, u.total, k = u.total, "a.mp4",
                                                  ObjectNameOf(id), u.chunks[k]))
    /\ client' = [client EXCEPT ![id].extra = TRUE, ![id].st = "wait"]
    /\ UNCHANGED <<served, call>>

NextResend ==
    \/ Deliver("u1")
    \/ Resend("u1")
    \/ \E s \in Slots : Receive(s)
    \/ Serve

\* one upload delivered in order, one of its chunks sent twice
SpecResend == Init /\ [][NextResend]_vars

---------------------------------------------------------------------------
(* The PHP handler *)

\* (int)$_POST[...] of a decimal field; a string that starts with no digit is 0
intval(str) ==
    LET N == 0..(Max(MaxChunk, MaxTotal) + 1)
    IN IF \E n \in N : ToString(n) = str
       THEN CHOOSE n \in N : ToString(n) = str
       ELSE 0

phpAllowedExtensions == {"mp4", "mov", "avi", "mkv", "webm", "flv"}

\* strtolower(pathinfo($filename, PATHINFO_EXTENSION))
pathinfoExtension(f) ==
    CASE f \in {"a.mp4", "o.mp4"} -> "mp4"
      [] f = "b.exe" -> "exe"
      [] OTHER -> ""

\* the filenames of the model hold no character outside [a-zA-Z0-9._-]
isValidFilename(filename) == pathinfoExtension(filename) \in phpAllowedExtensions

\* preg_replace('/[^a-zA-Z0-9_-]/', '', $string): every other character is dropped
sanitize(string) ==
    CASE string = "u.1" -> "u1"
      [] string = "u 2" -> "u2"
      [] OTHER -> string

\* the array handleUpload returns, with the status of the response; client_id
\* is the upload_id as the request carried it
PhpAnswer(id, status, kind) ==
    [PhpIdle EXCEPT !.pc = "done", !.upload_id = sanitize(id), !.client_id = id,
                    !.resp = [status |-> status, kind |-> kind, file_size |-> 0]]

\* a session directory as chunk 1 creates it: metadata.json and no chunk;
\* client_id remembers the upload_id of the request that created it
PhpSessionDir(r) ==
    [ metadata |-> [ original_filename |-> basename(r.original_filename),
                     total_chunks |-> intval(r.total_chunks),
                     object_name |-> r.object_name,
                     started_at |-> now ],
      client_id |-> r.upload_id,
      chunks |-> EmptyMap ]

\* lines 61-66: a required parameter is not set
phpMissingParameter(r) == \E f \in RequiredFields : r[f] = ""

\* handleMultipartUpload up to its return or its call of assembleAndFinalize
phpHandleMultipartUpload(r) ==
    /\ phpReq.pc = "idle"
    /\ LET uploadId == sanitize(r.upload_id)
           chunkNumber == intval(r.chunk_number)
           totalChunks == intval(r.total_chunks)
           isLastChunk == r.is_last_chunk = "true"
           originalFilename == basename(r.original_filename)
           created == IF chunkNumber = 1 /\ uploadId \notin DOMAIN phpTempDir
                      THEN MapPut(phpTempDir, uploadId, PhpSessionDir(r))
                      ELSE phpTempDir
       IN IF phpMissingParameter(r) \/ ~r.has_file \/ ~isValidFilename(originalFilename)
          THEN /\ phpReq' = PhpAnswer(r.upload_id, 500, "error")
               /\ UNCHANGED phpTempDir
          ELSE IF uploadId \notin DOMAIN created
          THEN /\ phpReq' = PhpAnswer(r.upload_id, 500, "error")
               /\ UNCHANGED phpTempDir
          ELSE /\ phpTempDir' =
                     [created EXCEPT ![uploadId].chunks = MapPut(@, chunkNumber, r.file)]
               /\ phpReq' = IF isLastChunk
                            THEN [PhpIdle EXCEPT !.pc = "assemble", !.upload_id = uploadId,
                                                 !.client_id = r.upload_id,
                                                 !.totalChunks = totalChunks]
                            ELSE PhpAnswer(r.upload_id, 200, "progress")
    /\ UNCHANGED <<phpUploadDir, nodeVars, envVars>>

\* assembleAndFinalize($uploadId, $sessionDir, $totalChunks), cleanupSession included
phpAssembleAndFinalize ==
    /\ phpReq.pc = "assemble"
    /\ LET uploadId == phpReq.upload_id
           totalChunks == phpReq.totalChunks
           sessionDir == phpTempDir[uploadId]
           metadata == sessionDir.metadata
           missing == {i \in 1..totalChunks : i \notin DOMAIN sessionDir.chunks}
           assembledFile == Flatten([i \in 1..totalChunks |-> sessionDir.chunks[i]])
           finalName == IF metadata.object_name # ""
                            THEN basename(metadata.object_name)
                            ELSE metadata.original_filename
       IN IF missing # {}
          THEN /\ phpReq' = PhpAnswer(phpReq.client_id, 500, "error")
               /\ UNCHANGED <<phpTempDir, phpUploadDir>>
          ELSE /\ phpUploadDir' = MapPut(phpUploadDir, finalName, assembledFile)
               /\ phpTempDir' = MapDel(phpTempDir, uploadId)
               /\ phpReq' = [PhpAnswer(phpReq.client_id, 200, "final")
                                EXCEPT !.resp.file_size = Len(assembledFile)]
    /\ UNCHANGED <<nodeVars, envVars>>

\* abortUpload, cleanupSession included
phpAbortUpload(id) ==
    /\ phpReq.pc = "idle"
    /\ phpTempDir' = MapDel(phpTempDir, sanitize(id))
    /\ phpReq' = PhpAnswer(id, 200, "aborted")
    /\ UNCHANGED <<phpUploadDir, nodeVars, envVars>>

\* the response is sent and the worker takes the next request
phpRespond ==
    /\ phpReq.pc = "done"
    /\ phpReq' = PhpIdle
    /\ UNCHANGED <<phpTempDir, phpUploadDir, nodeVars, envVars>>

\* chunk requests of two uploads, whatever their chunk_number and total_chunks
PhpChunkRequests ==
    { ChunkRequest(id, n, total, last, "a.mp4", ObjectNameOf(id), Payload(n)) :
        id \in UploadIds, n \in ChunkNums, total \in ChunkNums, last \in BOOLEAN }

PhpChunk == \E r \in PhpChunkRequests : phpHandleMultipartUpload(r)
PhpAbort == \E id \in UploadIds : phpAbortUpload(id)

NextPhp == PhpChunk \/ PhpAbort \/ phpAssembleAndFinalize \/ phpRespond

\* arbitrary chunk and abort requests, served one after the other by the PHP handler
SpecPhp == Init /\ [][NextPhp]_vars

\* an invalid chunk request arrives at the PHP handler
PhpInvalidChunk == \E r \in InvalidRequests : phpHandleMultipartUpload(r)

NextPhpInvalid == NextPhp \/ PhpInvalidChunk

SpecPhpInvalid == Init /\ [][NextPhpInvalid]_vars

\* upload ids as two clients supply them: they differ, and sanitize maps them
\* to the same directory name
ClientIds == {"u1", "u.1"}

\* the bytes of chunk n as the client with upload_id id sends them
PayloadOf(id, n) == IF id = "u1" THEN Payload(n) ELSE [k \in 1..n |-> 0]

PhpIdRequests ==
    { ChunkRequest(id, n, MaxChunk, last, "a.mp4", "", PayloadOf(id, n)) :
        id \in ClientIds, n \in ChunkNums, last \in BOOLEAN }

PhpIdChunk == \E r \in PhpIdRequests : phpHandleMultipartUpload(r)
PhpIdAbort == \E id \in ClientIds : phpAbortUpload(id)

NextPhpIds == PhpIdChunk \/ PhpIdAbort \/ phpAssembleAndFinalize \/ phpRespond

\* chunk and abort requests of two clients with different upload ids, served
\* one after the other by the PHP handler
SpecPhpIds == Init /\ [][NextPhpIds]_vars

---------------------------------------------------------------------------
(* The browser client *)

\* Math.ceil(file.size / chunkSize)
Ceil(a, b) == (a + b - 1) \div b

\* the chunk size of the call, in bytes
chunkSize == 2

\* line 72: let retries = 3
Retries == 3

chunkNumber(c) == c.i + 1
isLastChunk(c) == chunkNumber(c) = c.totalChunks

\* a file of size bytes; byte j has the value j
FileOf(size) == [j \in 1..size |-> j]

\* Blob.slice(start, end): the bytes from offset start up to, not including,
\* offset end, both held within the blob
slice(blob, start, end) ==
    LET from == IF start > Len(blob) THEN Len(blob) ELSE start
        to == IF end > Len(blob) THEN Len(blob) ELSE end
    IN SubSeq(blob, from + 1, to)

\* a start one chunk further on
sliceStartNext(i) == (i + 1) * chunkSize

\* line 45: const start = i * chunkSize
sliceStart(i) == i * chunkSize

\* line 46: const end = Math.min(start + chunkSize, file.size)
sliceEnd(i, size) ==
    IF sliceStart(i) + chunkSize < size THEN sliceStart(i) + chunkSize ELSE size

\* lines 45-61: the form data of chunk i + 1
formDataOf(c) ==
    ChunkRequest(c.uploadId, chunkNumber(c), c.totalChunks, isLastChunk(c), "a.mp4", "",
                 slice(c.file, sliceStart(c.i), sliceEnd(c.i, Len(c.file))))

\* lines 44-74: the test of the for loop and the start of a chunk
loopHead(c) ==
    IF c.i < c.totalChunks
    THEN [c EXCEPT !.pc = "send", !.retries = Retries, !.uploaded = FALSE,
                   !.delays = <<>>, !.formData = formDataOf(c)]
    ELSE [c EXCEPT !.pc = "returned", !.result = "undefined"]

\* line 76 and lines 119-131: the test of the while loop; after the loop the
\* call returns the result of the last chunk or goes on with the next chunk
whileHead(c) ==
    IF c.retries > 0 /\ ~c.uploaded
    THEN [c EXCEPT !.pc = "send"]
    ELSE IF isLastChunk(c)
    THEN [c EXCEPT !.pc = "returned", !.result = "success"]
    ELSE loopHead([c EXCEPT !.i = c.i + 1])

\* line 115: the wait before the next attempt, in milliseconds
backoffDelay(retries) == 1000 * (4 - retries)

\* the quotients chunkNumber / totalChunks whose product with 100 lies a half
\* above an integer and comes out below it in double arithmetic
\* (23 / 40 * 100 is 57.49999999999999), for up to 211 chunks
RoundedDown ==
    { <<23, 40>>, <<46, 80>>, <<69, 120>>, <<92, 160>>,
      <<29, 200>>, <<57, 200>>, <<113, 200>>, <<115, 200>> }

\* Math.floor in the place of Math.round
MathFloor(num, den) == num \div den

\* Math.round(x) of a quotient: the integer nearest to x, the upper one of two
MathRound(num, den) == (2 * num + den) \div (2 * den)

\* line 100: Math.round((chunkNumber / totalChunks) * 100)
progressOf(k, n) ==
    IF <<k, n>> \in RoundedDown
    THEN MathRound(100 * k, n) - 1
    ELSE MathRound(100 * k, n)

\* lines 92-103: the chunk is uploaded and its progress reported
chunkUploaded(c) ==
    whileHead([c EXCEPT !.uploaded = TRUE,
                        !.uploadedChunks = Append(@, chunkNumber(c)),
                        !.uploadedBytes = @ \o c.formData.file,
                        !.progress = Append(@, progressOf(chunkNumber(c),
                                                          c.totalChunks))])

\* lines 92-103 and 119: the body of the response parses to null (or to
\* another falsy value); the chunk counts as uploaded, and after the last
\* chunk the test of line 119 fails, the for loop ends and the call returns
\* without a value
chunkUploadedNull(c) ==
    LET d == chunkUploaded(c) IN
    IF d.pc = "returned" THEN [d EXCEPT !.result = "undefined"] ELSE d

\* a failed attempt after which the call goes on with the next chunk
chunkFailedSkip(c) == loopHead([c EXCEPT !.i = c.i + 1])

\* a failed attempt that leaves the number of retries as it is
chunkFailedAgain(c) ==
    [c EXCEPT !.pc = "backoff", !.delays = Append(@, backoffDelay(c.retries))]

\* lines 106-116 and 133-147: the catch block of an attempt; when no retries
\* are left the error reaches the outer catch block, which sends the abort
chunkFailed(c) ==
    IF c.retries - 1 = 0
    THEN [c EXCEPT !.retries = 0, !.pc = "abort", !.inflight = @ + 1,
                   !.error = chunkNumber(c), !.aborts = Append(@, c.uploadId)]
    ELSE [c EXCEPT !.retries = @ - 1, !.pc = "backoff",
                   !.delays = Append(@, backoffDelay(c.retries - 1))]

\* what becomes of a fetch: a success status with a JSON object as body, a
\* success status with the JSON body null, a success status with a body that
\* is not JSON, another status, no response
FetchOutcomes == {"ok", "ok_null", "bad_json", "not_ok", "reject"}

\* lines 14-40: the call starts with a file of some size
uploadVideoMultipart ==
    /\ call.pc = "none"
    /\ \E size \in 0..MaxFileSize, id \in UploadIds :
         call' = loopHead([NoCall EXCEPT !.totalChunks = Ceil(size, chunkSize),
                                         !.file = FileOf(size),
                                         !.uploadId = id])
    /\ UNCHANGED <<nodeVars, phpVars, served, client>>

\* lines 77-84: fetch sends the chunk
chunkSent(c) ==
    [c EXCEPT !.pc = "fetch", !.inflight = @ + 1, !.sent = Append(@, chunkNumber(c))]

sendChunk ==
    /\ call.pc = "send"
    /\ call' = chunkSent(call)
    /\ UNCHANGED <<nodeVars, phpVars, served, client>>

\* lines 86-116: the fetch of a chunk settles with the given outcome
fetchSettled(cl, outcome) ==
    LET c == [cl EXCEPT
                 !.inflight = @ - 1,
                 !.acked = IF outcome \in {"ok", "ok_null", "bad_json"}
                           THEN @ \cup {chunkNumber(cl)} ELSE @,
                 !.failed = IF outcome \in {"ok", "ok_null"}
                            THEN @ ELSE Append(@, chunkNumber(cl))]
    IN CASE outcome = "ok" -> chunkUploaded(c)
         [] outcome = "ok_null" -> chunkUploadedNull(c)
         [] OTHER -> chunkFailed(c)

fetchSettles(outcome) ==
    /\ call.pc = "fetch"
    /\ call' = fetchSettled(call, outcome)
    /\ UNCHANGED <<nodeVars, phpVars, served, client>>

fetchReturns == \E outcome \in FetchOutcomes : fetchSettles(outcome)

\* line 115: the timer of the wait fires
backoffEnds ==
    /\ call.pc = "backoff"
    /\ call' = whileHead(call)
    /\ UNCHANGED <<nodeVars, phpVars, served, client>>

\* the abort request settles and its failure is thrown in place of the error
\* of the chunk
abortReturnsEscalates ==
    /\ call.pc = "abort"
    /\ \E outcome \in FetchOutcomes :
         call' = [call EXCEPT !.pc = "thrown", !.inflight = @ - 1,
                              !.result = IF outcome = "reject"
                                         THEN "abort_error" ELSE "error"]
    /\ UNCHANGED <<nodeVars, phpVars, served, client>>

\* lines 143-155: the abort request settles; a rejected fetch is logged
\* (lines 150-152), the response is not looked at, and the call throws the
\* error of the chunk
abortSettled(c, outcome) ==
    [c EXCEPT !.pc = "thrown", !.inflight = @ - 1, !.logged = (outcome = "reject"),
              !.result = "error"]

abortReturns ==
    /\ call.pc = "abort"
    /\ \E outcome \in FetchOutcomes : call' = abortSettled(call, outcome)
    /\ UNCHANGED <<nodeVars, phpVars, served, client>>

NextClient ==
    uploadVideoMultipart \/ sendChunk \/ fetchReturns \/ backoffEnds \/ abortReturns

\* one call of uploadVideoMultipart against a server that answers as it likes
SpecClient == Init /\ [][NextClient]_vars

\* lines 14-40: the call starts with a file of many chunks
uploadLargeFile ==
    /\ call.pc = "none"
    /\ \E size \in (MaxFileSize + 1)..MaxLargeFile :
         call' = loopHead([NoCall EXCEPT !.totalChunks = Ceil(size, chunkSize),
                                         !.file = FileOf(size),
                                         !.uploadId = "u1"])
    /\ UNCHANGED <<nodeVars, phpVars, served, client>>

\* the fetch of a chunk of a small file settles in any way
smallFetch == call.totalChunks <= Ceil(MaxFileSize, chunkSize) /\ fetchReturns

\* the fetch of a chunk settles with a success
acceptedFetch == fetchSettles("ok")

NextProgress ==
    \/ uploadVideoMultipart \/ uploadLargeFile \/ sendChunk
    \/ smallFetch \/ acceptedFetch \/ backoffEnds \/ abortReturns

\* one call of uploadVideoMultipart: a small file against a server that answers
\* as it likes, or a file of many chunks against a server that accepts them
SpecProgress == Init /\ [][NextProgress]_vars

\* lines 14-23: the caller wants the running upload to stop.  The options of
\* uploadVideoMultipart hold no signal or token through which the call could
\* learn of it, so nothing but the caller's intention changes.
cancel ==
    /\ call.pc \in {"send", "fetch", "backoff"}
    /\ ~call.cancelled
    /\ call' = [call EXCEPT !.cancelled = TRUE]
    /\ UNCHANGED <<nodeVars, phpVars, served, client>>

NextCancel == NextClient \/ cancel

\* one call of uploadVideoMultipart which the caller may want to cancel
SpecCancel == Init /\ [][NextCancel]_vars

---------------------------------------------------------------------------
(* The browser client and the Express server *)

\* The requests of one call of uploadVideoMultipart travel to the server over
\* a transport that may lose a request before it arrives or lose its response.

\* what the client makes of a response of the server (uploadResponse.ok)
OutcomeOf(resp) == IF resp.status = 200 THEN "ok" ELSE "not_ok"

\* client lines 77-84: the chunk is sent and arrives at the server
chunkArrives ==
    /\ call.pc = "send"
    /\ \E s \in Slots :
         /\ handleMultipartUpload(s, call.formData)
         /\ call' = [chunkSent(call) EXCEPT !.slot = s,
                                            !.delivered = @ \cup {chunkNumber(call)}]
    /\ UNCHANGED <<served, client>>

\* client lines 77-84: the chunk is sent and lost on its way
chunkLost ==
    /\ call.pc = "send"
    /\ call' = chunkSent(call)
    /\ UNCHANGED <<nodeVars, phpVars, served, client>>

\* the fetch of a lost request rejects
lostRejects ==
    /\ call.pc = "fetch"
    /\ call.slot = 0
    /\ call' = fetchSettled(call, "reject")
    /\ UNCHANGED <<nodeVars, phpVars, served, client>>

\* the response of the server reaches the client, or is lost and the fetch
\* rejects
responseArrives ==
    /\ call.pc = "fetch"
    /\ call.slot # 0
    /\ respond(call.slot)
    /\ \E outcome \in {OutcomeOf(req[call.slot].resp), "reject"} :
         call' = fetchSettled([call EXCEPT !.slot = 0], outcome)
    /\ UNCHANGED <<served, client>>

\* client lines 138-149: the abort request arrives at the server
abortArrives ==
    /\ call.pc = "abort"
    /\ call.slot = 0
    /\ \E s \in Slots :
         /\ handleAbortUpload(s, call.uploadId)
         /\ call' = [call EXCEPT !.slot = s]
    /\ UNCHANGED <<served, client>>

\* the abort request was lost on its way: its fetch rejects
abortLost ==
    /\ call.pc = "abort"
    /\ call.slot = 0
    /\ call' = abortSettled(call, "reject")
    /\ UNCHANGED <<nodeVars, phpVars, served, client>>

\* the response to the abort request reaches the client
abortAnswered ==
    /\ call.pc = "abort"
    /\ call.slot # 0
    /\ respond(call.slot)
    /\ call' = abortSettled([call EXCEPT !.slot = 0], OutcomeOf(req[call.slot].resp))
    /\ UNCHANGED <<served, client>>

NextEndToEnd ==
    \/ uploadVideoMultipart \/ chunkArrives \/ chunkLost \/ lostRejects
    \/ Serve \/ responseArrives \/ backoffEnds
    \/ abortArrives \/ abortLost \/ abortAnswered

\* one call of uploadVideoMultipart against the Express server
SpecEndToEnd == Init /\ [][NextEndToEnd]_vars

----------------------------------------------------------------------------
(* The call and the server keep going *)

\* one call of uploadVideoMultipart against the Express server: every fetch
\* settles, every timer fires and every file operation of the server returns
SpecLive == Init /\ [][NextEndToEnd]_vars /\ WF_vars(NextEndToEnd)

----------------------------------------------------------------------------
(* The call with every request settling *)

\* one call of uploadVideoMultipart against a server that answers as it
\* likes: every fetch settles, with a response or a failure, and every timer
\* fires
SpecClientLive == Init /\ [][NextClient]_vars /\ WF_vars(NextClient)

---------------------------------------------------------------------------
(* Claims *)

\* C1: when the chunks 1..totalChunks of an upload have arrived in index
\* order, each once, the last one flagged is_last_chunk, and the last one has
\* been answered with the final result, the file at the upload's destination
\* is the concatenation of the chunk payloads in index order.
C1_InOrderArtifact ==
    \A id \in UploadIds :
        client[id].st = "complete" =>
            /\ DestOf(id) \in DOMAIN uploadDir
            /\ inodes[uploadDir[DestOf(id)]] = Flatten(client[id].chunks)

\* an upload of three chunks that differ in content and length is complete
C1_Witness ==
    /\ client["u1"].st = "complete"
    /\ client["u1"].chunks = << <<2, 3>>, <<1>>, <<2, 3>> >>
    /\ client["u2"].st = "complete"
    /\ client["u2"].total = 2

\* the handler is between the start of the assembly and the commit
Assembling(h) == h.pc \in {"readFile", "readFile_ret", "finish", "rename", "rename_ret"}

\* C2: at most one handler runs the assemble-and-commit steps of a session,
\* also when the final chunk of the upload is handled twice concurrently.
C2_OneAssembly ==
    \A s, t \in Slots :
        (s # t /\ req[s].session # 0 /\ req[s].session = req[t].session)
            => ~(Assembling(req[s]) /\ Assembling(req[t]))

\* C3: once both submissions of the final chunk are answered, exactly one of
\* them was a successful assembly and the destination holds the concatenation
\* of the upload's chunks.
C3_DoubleFinal ==
    \A id \in UploadIds :
        (client[id].extra /\ Len(client[id].finals) = 2) =>
            /\ Cardinality({k \in 1..2 : client[id].finals[k] = "final"}) = 1
            /\ DestOf(id) \in DOMAIN uploadDir
            /\ inodes[uploadDir[DestOf(id)]] = Flatten(client[id].chunks)

\* the artifact of an upload of t chunks made of the payloads of arbitrary requests
Artifact(t) == Flatten([i \in 1..t |-> Payload(i)])

\* C4: in every state every file of the upload directory is the complete
\* concatenation of the chunks of one session.
C4_DestinationComplete ==
    \A f \in DOMAIN uploadDir :
        \E t \in 1..MaxChunk : inodes[uploadDir[f]] = Artifact(t)

\* C7: a chunk-1 request for an upload_id that has a session leaves that
\* session as it is.
C7_FirstCallerWins ==
    [][\A s \in Slots :
          (/\ req[s].pc = "mkdir_ret"
           /\ req'[s].pc # "mkdir_ret"
           /\ req[s].upload_id \in DOMAIN uploadSessions)
          => (/\ req[s].upload_id \in DOMAIN uploadSessions'
              /\ heap'[uploadSessions'[req[s].upload_id]]
                    = heap[uploadSessions[req[s].upload_id]])]_vars

\* C8: while an upload_id keeps a session, the set of its received chunks
\* only grows.
C8_ChunksOnlyGrow ==
    [][\A id \in DOMAIN uploadSessions :
          id \in DOMAIN uploadSessions' =>
              heap[uploadSessions[id]].chunks \subseteq heap'[uploadSessions'[id]].chunks]_vars

\* C9: the received chunks of every session are indices in 1..totalChunks.
C9_ChunksInRange ==
    \A o \in DOMAIN heap : heap[o].chunks \subseteq 1..heap[o].totalChunks

\* C5: the PHP handler commits the artifact of a session only when every
\* index in 1..total_chunks of the session's metadata has a chunk file.
C5_CompleteOnlyWhenAll ==
    [][(phpReq.pc = "assemble" /\ phpReq'.resp.kind = "final")
          => LET sessionDir == phpTempDir[phpReq.upload_id]
             IN 1..sessionDir.metadata.total_chunks \subseteq DOMAIN sessionDir.chunks]_vars

\* C6: an upload delivered in order in which one chunk already received was
\* sent again with the same bytes does not fail, and when it is complete the
\* destination holds the concatenation of its chunks, as it does when every
\* chunk is sent once.
C6_ResendNoOp ==
    \A id \in UploadIds :
        client[id].extra =>
            /\ client[id].st # "failed"
            /\ client[id].st = "complete" =>
                  /\ DestOf(id) \in DOMAIN uploadDir
                  /\ inodes[uploadDir[DestOf(id)]] = Flatten(client[id].chunks)

\* handler s answers in this step, having run cleanupSession for an abort of
\* a session of the registry or for a committed artifact
EndsSession(s) ==
    /\ req'[s].pc = "done"
    /\ req'[s].resp.status = 200
    /\ req'[s].resp.kind \in {"final", "aborted"}
    /\ \/ req[s].pc \in {"rm_ret", "stat_ret"}
       \/ req[s].pc = "idle" /\ req'[s].upload_id \in DOMAIN uploadSessions

\* C10: when the abort of a session or the final chunk is answered with
\* success, the upload_id has no registry entry and no chunk file.
C10_RemovedAtEnd ==
    [][\A s \in Slots :
          EndsSession(s)
          => (/\ req'[s].upload_id \notin DOMAIN uploadSessions'
              /\ \A k \in DOMAIN chunkFile' : k[1] # req'[s].upload_id)]_vars
\* a chunk request with chunk_number above 1 arrives in slot s for an
\* upload_id that has no entry in the registry
LateChunkArrives(s) ==
    /\ req[s].pc = "idle"
    /\ req'[s].kind = "chunk"
    /\ req'[s].chunkNum > 1
    /\ req'[s].upload_id \notin DOMAIN uploadSessions

\* C11: a chunk request with chunk_number above 1 for an upload_id without a
\* session is answered 400 "Upload session not found", and the registry, the
\* session directories and the chunk files are left as they were.
C11_SessionNotFound ==
    [][\A s \in Slots :
          LateChunkArrives(s)
          => (/\ req'[s].pc = "done"
              /\ req'[s].resp.status = 400
              /\ req'[s].resp.kind = "session_not_found"
              /\ UNCHANGED <<uploadSessions, dirs, chunkFile>>)]_vars

\* chunk 2 of an upload has been rejected while the answered abort of the same
\* upload_id, which removed the session directory, is still in the other slot
C11_Witness ==
    \E s, t \in Slots :
        /\ req[s].pc = "done" /\ req[s].kind = "chunk" /\ req[s].chunkNum = 2
        /\ req[s].resp.kind = "session_not_found"
        /\ req[t].pc = "done" /\ req[t].kind = "abort" /\ req[t].upload_id = req[s].upload_id
        /\ req[t].resp.kind = "aborted" /\ req[t].after = "abort"
        /\ uploadSessions = EmptyMap /\ dirs = {}

\* the PHP handler creates a session directory only together with its chunk 1
PhpCreatedByChunkOne ==
    [][\A id \in DOMAIN phpTempDir' \ DOMAIN phpTempDir :
          DOMAIN phpTempDir'[id].chunks = {1}]_vars
\* an abort request arrives in slot s for an upload_id that has no entry in
\* the registry
UnknownAbortArrives(s) ==
    /\ req[s].pc = "idle"
    /\ req'[s].kind = "abort"
    /\ req'[s].upload_id # ""
    /\ req'[s].upload_id \notin DOMAIN uploadSessions

\* the abort handler in slot s answers in this step
AbortAnswered(s) == req[s].pc # "done" /\ req'[s].pc = "done" /\ req'[s].kind = "abort"

PhpAbortIdempotent ==
    [][(phpReq.pc = "idle" /\ phpReq'.resp.kind = "aborted")
          => (/\ phpReq'.resp.status = 200
              /\ phpReq'.upload_id \notin DOMAIN phpTempDir'
              /\ phpReq'.upload_id \notin DOMAIN phpTempDir
                    => UNCHANGED <<phpTempDir, phpUploadDir>>)]_vars
\* the sweep deletes the registry entry of id in this step
SweepDeletes(id) ==
    /\ sweep' # sweep
    /\ id \in DOMAIN uploadSessions
    /\ id \notin DOMAIN uploadSessions'

\* C14: a sweep deletes a session only when the session was last given a
\* chunk more than sessionMaxAge before the sweep started.
C14_OnlyIdleExpire ==
    [][\A id \in UploadIds :
          SweepDeletes(id) => expiredIdle(heap[uploadSessions[id]], sweep.now)]_vars
\* the sweep ends in this step
SweepEnds == sweep.pc = "scan" /\ sweep'.pc = "idle"

\* C13: when a sweep ends no session of the registry was last given a chunk
\* more than sessionMaxAge before the sweep started; and when the sweep deletes
\* the entry of such a session no chunk file of its upload_id is left.
C13_SweepRemovesIdle ==
    [][/\ SweepEnds
          => \A id \in DOMAIN uploadSessions' :
                ~expiredIdle(heap'[uploadSessions'[id]], sweep.now)
       /\ \A id \in UploadIds :
            (SweepDeletes(id) /\ expiredIdle(heap[uploadSessions[id]], sweep.now))
               => \A k \in DOMAIN chunkFile' : k[1] # id]_vars
\* the catch block of assembleAndFinalize has run and the request of slot s is
\* answered
AssemblyFails(s) ==
    /\ req[s].pc # "done"
    /\ req'[s].pc = "done"
    /\ req'[s].kind = "chunk"
    /\ req'[s].after = "throw"

\* C15: when the assembly of a session fails, the request is answered with a
\* failure, and the upload_id is left without registry entry and without
\* chunk data, so that (C11) no later chunk above 1 is accepted for it.
C15_FailureTerminal ==
    [][\A s \in Slots :
          AssemblyFails(s)
          => (/\ req'[s].resp.status = 500
              /\ req'[s].upload_id \notin DOMAIN uploadSessions'
              /\ \A k \in DOMAIN chunkFile' : k[1] # req'[s].upload_id)]_vars

\* the PHP handler: a failed assembly leaves the session directory in place
PhpFailureTerminal ==
    [][(phpReq.pc = "assemble" /\ phpReq'.resp.status = 500)
         => phpReq'.upload_id \notin DOMAIN phpTempDir']_vars

\* C16: a chunk request that fails validation (a required field missing, no
\* file, an extension that is not allowed) is answered at once with a failure
\* and changes neither the registry nor any stored file, whatever the state.
C16_InvalidRejected ==
    [][\A s \in Slots :
          (req[s].pc = "idle" /\ req'[s].kind = "chunk")
          => \A r \in InvalidRequests :
               handleMultipartUpload(s, r)
               => (/\ req'[s].pc = "done"
                   /\ req'[s].resp.status = 400
                   /\ UNCHANGED <<uploadSessions, heap, dirs, chunkFile, assembled,
                                  uploadDir, inodes>>)]_vars

\* an invalid request has been rejected while a session with a stored chunk
\* and a request in progress exist
C16_Witness ==
    \E s, t \in Slots :
        /\ req[s].pc = "done" /\ req[s].kind = "chunk"
        /\ req[s].resp.status = 400 /\ req[s].resp.kind = "error"
        /\ req[t].pc \notin {"idle", "done"}
        /\ "u1" \in DOMAIN uploadSessions
        /\ <<"u1", 1>> \in DOMAIN chunkFile

\* the PHP handler rejects an invalid request without touching its directories
PhpInvalidRejected ==
    [][\A r \in InvalidRequests :
          phpHandleMultipartUpload(r)
          => (/\ phpReq'.pc = "done"
              /\ phpReq'.resp.status = 500
              /\ UNCHANGED <<phpTempDir, phpUploadDir>>)]_vars

\* the PHP handler has worked on a request that carried upload_id a
PhpHandles(a) ==
    /\ phpReq.pc \in {"idle", "assemble"}
    /\ phpReq' # phpReq
    /\ phpReq'.client_id = a

\* C17: handling a request for one upload_id changes no session that a
\* request with another upload_id created: its directory, its metadata and
\* its chunk files stay as they were.
C17_NoInterference ==
    [][\A a \in ClientIds :
          PhpHandles(a)
          => \A k \in DOMAIN phpTempDir :
                phpTempDir[k].client_id # a
                => (k \in DOMAIN phpTempDir' /\ phpTempDir'[k] = phpTempDir[k])]_vars

\* the number of requests of a log that carried chunk n
Count(log, n) == Cardinality({p \in DOMAIN log : log[p] = n})

\* the call sends a chunk request in this step
Sends == call'.sent # call.sent

\* the request sent in this step is the first one of chunk n
FirstAttempt(n) ==
    /\ call'.sent = Append(call.sent, n)
    /\ Count(call.sent, n) = 0

\* C18: the client has at most one request in flight; the first request of
\* chunk 1 is the first request of all, and the first request of chunk n + 1
\* is sent when every chunk up to n has been sent and has been answered with
\* a success status.
C18_InOrder ==
    [][/\ call'.inflight <= 1
       /\ Sends => call.inflight = 0
       /\ \A n \in 1..Ceil(MaxFileSize, chunkSize) :
             FirstAttempt(n)
             => (/\ n = 1 => call.sent = <<>>
                 /\ \A k \in 1..(n - 1) : Count(call.sent, k) > 0 /\ k \in call.acked
                 /\ \A k \in (n + 1)..Ceil(MaxFileSize, chunkSize) :
                       Count(call.sent, k) = 0)]_vars

\* an upload of three chunks has succeeded with chunk 2 sent twice
C18_Witness ==
    /\ call.pc = "returned" /\ call.result = "success"
    /\ call.sent = <<1, 2, 2, 3>>
    /\ call.acked = {1, 2, 3}

\* the attempt that settles in this step is the third failed one of its chunk
ThirdFailure ==
    /\ call.pc = "fetch"
    /\ Len(call'.failed) = Len(call.failed) + 1
    /\ Count(call'.failed, chunkNumber(call)) = Retries

\* the call has given up
GaveUp == call.pc \in {"abort", "thrown"}

\* C19: a chunk whose attempt fails is sent again, and no chunk is sent more
\* than 3 times; with the third failed attempt of a chunk the call gives up:
\* it sends no further chunk request and ends by throwing the error.
C19_BoundedRetries ==
    [][/\ \A n \in 1..Ceil(MaxFileSize, chunkSize) : Count(call'.sent, n) <= Retries
       /\ (call.pc = "fetch" /\ Len(call'.failed) > Len(call.failed) /\ ~ThirdFailure)
            => call'.pc = "backoff"
       /\ (call.pc = "backoff" /\ call'.pc # "backoff")
            => (call'.pc = "send" /\ call'.i = call.i)
       /\ ThirdFailure => call'.pc = "abort"
       /\ GaveUp => (/\ call'.sent = call.sent
                     /\ call'.pc \in {"abort", "thrown"}
                     /\ call'.pc = "thrown" => call'.result = "error")]_vars

\* the upload has failed after chunk 1 was uploaded and chunk 2 failed three times
C19_Witness ==
    /\ call.pc = "thrown" /\ call.result = "error"
    /\ call.sent = <<1, 2, 2, 2>>
    /\ call.failed = <<2, 2, 2>>

\* C20: each wait before a retry of a chunk is twice the wait before the
\* previous retry of that chunk.
C20_Exponential ==
    \A k \in 2..Len(call.delays) : call.delays[k] = 2 * call.delays[k - 1]

\* C21: with the third failed attempt of a chunk the client sends one abort
\* request with the upload_id of the call; after that it sends neither a
\* chunk nor another abort, and when the abort request has settled, delivered
\* or not, the call throws the error of the chunk that failed.
C21_AbortOnce ==
    [][/\ Len(call'.aborts) <= 1
       /\ ThirdFailure => (call'.pc = "abort" /\ call'.aborts = <<call.uploadId>>)
       /\ call'.aborts # call.aborts => ThirdFailure
       /\ GaveUp => (call'.sent = call.sent /\ call'.aborts = call.aborts)
       /\ (call.pc = "abort" /\ call'.pc # "abort")
            => (/\ call'.pc = "thrown"
                /\ call'.result = "error"
                /\ call'.error = call.sent[Len(call.sent)])]_vars

\* the abort request could not be delivered, the failure was logged and the
\* call has thrown the error of chunk 2
C21_Witness ==
    /\ call.pc = "thrown" /\ call.logged
    /\ call.result = "error" /\ call.error = 2
    /\ call.aborts = <<call.uploadId>>
    /\ call.sent = <<1, 2, 2, 2>>

\* C22: once the caller has cancelled, between two chunks or during a wait,
\* the client sends no further chunk, and it sends the abort request.
C22_CancelObserved ==
    [][call.cancelled
         => (/\ (call.pc \in {"send", "backoff"} => call'.sent = call.sent)
             /\ (call.pc \in {"send", "backoff"} /\ call'.pc # call.pc)
                   => call'.pc = "abort")]_vars

\* C23 as stated: a report of 100 belongs to the last chunk
C23_HundredOnlyLast ==
    \A j \in DOMAIN call.progress :
        call.progress[j] = 100 => call.uploadedChunks[j] = call.totalChunks

\* C23: the client reports once for every chunk uploaded, in the order of the
\* chunks, and never otherwise; the report for chunk k is the integer nearest
\* to 100 * k / totalChunks; the reports never decrease and lie in 0..100;
\* 100 is reported for the last chunk, and for an earlier chunk only when it
\* lies within half a percent of the end of the file.
C23_ProgressReports ==
    LET p == call.progress
        u == call.uploadedChunks
        n == call.totalChunks
    IN /\ Len(p) = Len(u)
       /\ \A j \in DOMAIN u : u[j] = j /\ j \in call.acked
       /\ \A j \in DOMAIN p :
             /\ 2 * n * p[j] - 200 * u[j] \in (0 - n)..n
             /\ p[j] \in 0..100
             /\ p[j] = 100 => (u[j] = n \/ 200 * u[j] >= 199 * n)
       /\ \A j \in 2..Len(p) : p[j - 1] <= p[j]
       /\ (call.pc = "returned" /\ call.result = "success") => (Len(p) = n /\ p[n] = 100)

\* a file of 200 chunks has been uploaded; 100 was reported for chunk 199 and
\* for chunk 200
C23_Witness ==
    /\ call.pc = "returned" /\ call.result = "success"
    /\ call.totalChunks = 200
    /\ Len(call.progress) = 200
    /\ call.progress[199] = 100
    /\ call.progress[200] = 100

\* C24: a file of size bytes is sent in ceil(size / chunkSize) chunks numbered
\* from 1; chunk k carries the bytes at the offsets (k - 1) * chunkSize up to,
\* not including, min(k * chunkSize, size): between 1 and chunkSize bytes;
\* is_last_chunk is true for chunk k exactly when k is the number of chunks;
\* the chunks of a completed upload, put together in order, are the file.
C24_Split ==
    LET f == call.file
        size == Len(f)
        n == call.totalChunks
        k == call.i + 1
        b == call.formData
        len == IF k * chunkSize < size THEN chunkSize ELSE size - (k - 1) * chunkSize
    IN /\ call.pc # "none" => (n * chunkSize >= size /\ (n - 1) * chunkSize < size)
       /\ call.pc \in {"send", "fetch", "backoff"}
            => (/\ k \in 1..n
                /\ b.chunk_number = ToString(k)
                /\ b.total_chunks = ToString(n)
                /\ b.is_last_chunk = (IF k = n THEN "true" ELSE "false")
                /\ Len(b.file) = len
                /\ len \in 1..chunkSize
                /\ \A j \in 1..len : b.file[j] = f[(k - 1) * chunkSize + j])
       /\ (call.pc = "returned" /\ call.result = "success") => call.uploadedBytes = f

\* a file of 5 bytes has been uploaded in 3 chunks
C24_Witness ==
    /\ call.pc = "returned" /\ call.result = "success"
    /\ Len(call.file) = 5
    /\ call.totalChunks = 3
    /\ call.uploadedBytes = <<1, 2, 3, 4, 5>>

\* the client has used up the attempts of chunk k, none of which reached the
\* server
NeverDelivered(k) ==
    /\ Count(call.failed, k) >= Retries
    /\ k \notin call.delivered

\* C25: when the requests of a chunk that is not the last one never reach the
\* server and the client has used up its attempts, the call ends with the
\* error of that chunk, and the server has not begun to assemble the upload
\* and holds no artifact of it.
C25_DroppedChunkNoArtifact ==
    \A k \in 1..Ceil(MaxFileSize, chunkSize) :
        (NeverDelivered(k) /\ k < call.totalChunks)
        => (/\ call.pc \in {"abort", "thrown"}
            /\ call.error = k
            /\ call.pc = "thrown" => call.result = "error"
            /\ uploadDir = EmptyMap
            /\ assembled = EmptyMap
            /\ \A s \in Slots : ~Assembling(req[s]) /\ req[s].stream = "none")

\* chunk 2 of 3 was lost three times after chunk 1 was stored; the call has
\* thrown and its abort has removed the session
C25_Witness ==
    /\ call.pc = "thrown" /\ call.result = "error" /\ call.error = 2
    /\ call.totalChunks = 3
    /\ call.delivered = {1}
    /\ call.acked = {1}
    /\ ~call.logged
    /\ uploadSessions = EmptyMap /\ dirs = {} /\ uploadDir = EmptyMap

\* C26: the file_size in the final answer to an upload equals the sum of the
\* sizes of the chunk payloads of that upload, also when another upload
\* completes at the same time.
C26_FileSize ==
    \A s \in Slots :
        (req[s].pc = "done" /\ req[s].kind = "chunk" /\ req[s].resp.kind = "final")
        => req[s].resp.file_size = Len(Flatten(client[req[s].upload_id].chunks))

\* C27: when the chunks of an upload arrive in any order with chunk 1 first
\* and the chunk flagged is_last_chunk last, the file committed at the
\* upload's destination is the concatenation of the payloads in the order of
\* their chunk numbers.
C27_OrderIndependent ==
    \A id \in UploadIds :
        (client[id].st # "none" /\ DestOf(id) \in DOMAIN uploadDir)
        => inodes[uploadDir[DestOf(id)]]
             = Flatten([n \in 1..client[id].total |-> client[id].payloads[n]])

\* chunk 3 arrived before chunk 2, the two differ, and the upload is complete
C27_Witness ==
    /\ client["u1"].st = "complete"
    /\ client["u1"].order = <<1, 3, 2, 4>>
    /\ client["u1"].payloads[2] = <<2, 3>>
    /\ client["u1"].payloads[3] = <<1>>
    /\ DestOf("u1") \in DOMAIN uploadDir

\* C28: every session in the registry has a totalChunks of at least 1, and no
\* handler assembles a session whose totalChunks is zero or negative.
C28_PositiveTotal ==
    /\ \A id \in DOMAIN uploadSessions : heap[uploadSessions[id]].totalChunks >= 1
    /\ \A s \in Slots : Assembling(req[s]) => heap[req[s].session].totalChunks >= 1

\* C29: when a sweep has removed a session while chunk requests for it were
\* being handled, then once the sweep and the handlers have finished the
\* upload_id has no registry entry, no directory and no chunk file.
C29_ReaperWins ==
    \A id \in UploadIds :
        (sweep.pc = "idle" /\ id \in sweep.cleaned /\ Quiet)
        => (/\ id \notin DOMAIN uploadSessions
            /\ id \notin dirs
            /\ \A k \in DOMAIN chunkFile : k[1] # id)

\* C30: when a request flagged is_last_chunk finds chunks missing (the
\* assembly is given up before the write stream is created) and has been
\* answered, the session is still in the registry with the chunks it had
\* received, and their files are still in its directory.
C30_IncompleteRefused ==
    \A s \in Slots :
        (/\ req[s].pc = "done" /\ req[s].kind = "chunk" /\ req[s].isLast
         /\ req[s].after = "throw" /\ req[s].stream = "none")
        => (/\ req[s].upload_id \in DOMAIN uploadSessions
            /\ req[s].upload_id \in dirs
            /\ \A n \in heap[uploadSessions[req[s].upload_id]].chunks :
                  chunkPath(req[s].upload_id, n) \in DOMAIN chunkFile)

\* C31: a chunk request whose total_chunks differs from the totalChunks of the
\* session of its upload_id is answered with a validation error (status 400)
\* and leaves the registry and the session objects as they were.
C31_TotalMismatchRejected ==
    [][\A s \in Slots :
          (/\ req[s].pc = "idle" /\ req'[s].kind = "chunk"
           /\ req'[s].upload_id \in DOMAIN uploadSessions
           /\ req'[s].totalChunks # heap[uploadSessions[req'[s].upload_id]].totalChunks)
          => (/\ req'[s].pc = "done"
              /\ req'[s].resp.status = 400
              /\ UNCHANGED <<uploadSessions, heap>>)]_vars

\* C32: when the call of uploadVideoMultipart has thrown, no file of the
\* upload is committed in the upload directory, whichever requests and
\* responses were lost.
C32_ThrownMeansNoArtifact ==
    call.pc = "thrown" => finalFilename(call.formData) \notin DOMAIN uploadDir

\* the upload of the call is complete on both sides: the file is committed,
\* the session is removed, and the call has returned the final result
Completed ==
    /\ call.pc = "returned" /\ call.result = "success"
    /\ finalFilename(call.formData) \in DOMAIN uploadDir
    /\ inodes[uploadDir[finalFilename(call.formData)]] = call.file
    /\ call.uploadId \notin DOMAIN uploadSessions
    /\ call.uploadId \notin dirs

\* C33: when every chunk of a non-empty file is answered with success within
\* its three attempts (no chunk uses up its retries), the upload is eventually
\* complete on both sides: the file is committed, the session is removed and
\* the call has returned the final result.
C33_EventuallyCompletes ==
    (call.pc # "none" /\ call.totalChunks >= 1)
        ~> (Completed \/ call.pc \in {"abort", "thrown"})

\* a file of three chunks is complete on both sides after requests or
\* responses of two of its chunks were lost
C33_Witness ==
    /\ Completed
    /\ call.totalChunks = 3
    /\ Count(call.failed, 1) = 1
    /\ Count(call.failed, 3) = 2
    /\ call.delivered = {1, 2, 3}

\* C34: whenever no request is being handled and no sweep is running, an
\* upload_id has a session directory holding chunk files if and only if the
\* registry holds a session for it.
C34_NoOrphans ==
    (Quiet /\ sweep.pc = "idle")
    => \A id \in UploadIds :
          (id \in dirs /\ \E k \in DOMAIN chunkFile : k[1] = id)
          <=> id \in DOMAIN uploadSessions

\* C35: a call of uploadVideoMultipart that returns, for any file size from 0,
\* returns the result object of a success, and only after every chunk
\* 1..totalChunks was acknowledged.
C35_ResultOrThrow ==
    call.pc = "returned"
    => (/\ call.result = "success"
        /\ \A k \in 1..call.totalChunks : k \in call.acked)

\* C36: a call of uploadVideoMultipart whose requests all settle comes to an
\* end, by returning or by throwing, and for a file of N chunks it never has
\* sent more than 3 * N chunk requests or more than one abort request.
C36_Terminates ==
    /\ [](/\ Len(call.sent) <= Retries * call.totalChunks
          /\ Len(call.aborts) <= 1)
    /\ (call.pc # "none") ~> (call.pc \in {"returned", "thrown"})

\* a file of three chunks took all nine requests and the abort request
C36_Witness ==
    /\ call.pc = "thrown"
    /\ call.totalChunks = 3
    /\ Len(call.sent) = 9
    /\ Len(call.aborts) = 1

=============================================================================
